---- MODULE Spec2Model ----
(***************************************************************************)
(* Model of compile_files.py: the collector compile_files_to_text, the     *)
(* tree printer generate_directory_tree and the __main__ sequence.         *)
(*                                                                         *)
(* A string is a sequence of one-character strings.  The output file is    *)
(* the sequence of its newline-terminated lines.  A text file's content is *)
(* the sequence content.split("\n"), so write(content + "\n") appends      *)
(* exactly these lines.  A file-system node is named by the sequence of    *)
(* its path components below the working directory; every component is a  *)
(* single character.                                                       *)
(***************************************************************************)
EXTENDS Integers, Sequences, FiniteSets, TLC

VARIABLES
    dirs,         \* file system: the set of existing directories
    files,        \* file system: what reading each file slot gives
    directories,  \* the list handed to compile_files_to_text
    base_path,    \* the path handed to generate_directory_tree
    out,          \* the lines of the output file
    pc,           \* position in __main__
    di,           \* index of the next element of directories
    pending,      \* file paths os.walk has still to yield for this directory
    twalk,        \* (root, dirs, files) entries the tree printer has left
    run,          \* number of the current run of the script
    prev,         \* the output file as the previous run left it
    fault         \* the exception that ended the run, if any

vars == <<dirs, files, directories, base_path, out, pc, di, pending, twalk,
          run, prev, fault>>

-----------------------------------------------------------------------------
(* Bounds of the model *)

MaxDirs == 2      \* longest list of directories

(* Program constants *)

SepWidth == 80
IndentWidth == 4
Sep == "/"

-----------------------------------------------------------------------------
(* Strings *)

RECURSIVE Rep(_, _)
Rep(c, n) == IF n <= 0 THEN <<>> ELSE <<c>> \o Rep(c, n - 1)

IsPrefix(p, s) == Len(p) <= Len(s) /\ SubSeq(s, 1, Len(p)) = p

\* str.replace(old, ''): every non-overlapping occurrence, left to right
RECURSIVE Remove(_, _)
Remove(s, old) ==
    IF s = <<>> \/ old = <<>> THEN s
    ELSE IF IsPrefix(old, s) THEN Remove(SubSeq(s, Len(old) + 1, Len(s)), old)
    ELSE <<Head(s)>> \o Remove(Tail(s), old)

\* str.count of a single character
RECURSIVE Count(_, _)
Count(s, c) ==
    IF s = <<>> THEN 0
    ELSE (IF Head(s) = c THEN 1 ELSE 0) + Count(Tail(s), c)

\* os.path.join(a, b) for a relative b
Join(a, b) ==
    IF a = <<>> \/ a[Len(a)] = Sep THEN a \o b ELSE a \o <<Sep>> \o b

\* os.path.basename(p): what follows the last separator
RECURSIVE Basename(_)
Basename(p) ==
    IF p = <<>> \/ p[Len(p)] = Sep THEN <<>>
    ELSE Basename(SubSeq(p, 1, Len(p) - 1)) \o <<p[Len(p)]>>

\* the node a path string names
Components(p) == SelectSeq(p, LAMBDA c : c # Sep)

EqLine == Rep("=", SepWidth)
DashLine == Rep("-", SepWidth)
Blank == <<>>
Indent(level) == Rep(" ", IndentWidth * level)

NotFoundPrefix ==
    <<"D", "i", "r", "e", "c", "t", "o", "r", "y", " ", "n", "o", "t", " ",
      "f", "o", "u", "n", "d", ":", " ">>
DirectoryPrefix == <<"D", "i", "r", "e", "c", "t", "o", "r", "y", ":", " ">>
FilePrefix == <<"F", "i", "l", "e", ":", " ">>
BinaryLine ==
    <<"[", "B", "i", "n", "a", "r", "y", " ", "o", "r", " ", "n", "o", "n",
      "-", "t", "e", "x", "t", " ", "f", "i", "l", "e", "]">>
ErrorPrefix ==
    <<"[", "E", "r", "r", "o", "r", " ", "r", "e", "a", "d", "i", "n", "g",
      " ", "f", "i", "l", "e", ":", " ">>
TreeTitle ==
    <<"P", "r", "o", "j", "e", "c", "t", " ", "D", "i", "r", "e", "c", "t",
      "o", "r", "y", " ", "T", "r", "e", "e">>

-----------------------------------------------------------------------------
(* The file system the script runs on *)

Hello == <<"h", "e", "l", "l", "o">>
Bye == <<"b", "y", "e">>
Denied == <<"d", "e", "n", "i", "e", "d">>
Old == <<"o", "l", "d">>

DirUniverse == {<<"a">>, <<"a", "b">>, <<"a", "b", "a">>}
FileUniverse ==
    {<<"a", "f">>, <<"a", "b", "f">>, <<"a", "b", "g">>, <<"a", "b", "a", "f">>}
NameOrder == <<"a", "b", "f", "g">>     \* the order scandir lists names in

Parent(c) == SubSeq(c, 1, Len(c) - 1)
Last(c) == c[Len(c)]

Contents == {<<Hello>>, <<Bye, Blank>>}       \* "hello" and "bye\n"
Absent == [kind |-> "absent", data |-> <<>>]
TextFile(c) == [kind |-> "text", data |-> c]
BinaryFile == [kind |-> "binary", data |-> <<>>]
ErrorFile == [kind |-> "error", data |-> Denied]   \* data is str(e)
FileStates == {TextFile(c) : c \in Contents} \cup {BinaryFile, ErrorFile}

\* what a file slot may hold: the base directory's own file is only listed,
\* and the second file of a/b is one whose read fails
SlotStates(c) ==
    IF Len(c) = 2 THEN {TextFile(<<Hello>>)}
    ELSE IF Last(c) = "g" THEN {BinaryFile, ErrorFile}
    ELSE FileStates

IsDir(c) == c = <<>> \/ c \in dirs
IsFile(c) == c \in FileUniverse /\ files[c].kind # "absent"

\* os.path.exists
Exists(p) ==
    \/ IsDir(Components(p))
    \/ IsFile(Components(p)) /\ p # <<>> /\ p[Len(p)] # Sep

FileSystems ==
    {fs \in [d : SUBSET DirUniverse,
             f : [FileUniverse -> FileStates \cup {Absent}]] :
        /\ \A c \in fs.d : Len(c) = 1 \/ Parent(c) \in fs.d
        /\ \A c \in FileUniverse :
              fs.f[c] # Absent => Parent(c) \in fs.d /\ fs.f[c] \in SlotStates(c)}

-----------------------------------------------------------------------------
(* os.walk, top down, never following an error *)

SubdirNames(c) == SelectSeq(NameOrder, LAMBDA n : (c \o <<n>>) \in dirs)
FileNames(c) == SelectSeq(NameOrder, LAMBDA n : IsFile(c \o <<n>>))

RECURSIVE WalkFrom(_)
RECURSIVE WalkEach(_, _)
WalkEach(root, names) ==
    IF names = <<>> THEN <<>>
    ELSE WalkFrom(Join(root, <<Head(names)>>)) \o WalkEach(root, Tail(names))
WalkFrom(root) ==
    <<[root |-> root,
       dirs |-> SubdirNames(Components(root)),
       files |-> FileNames(Components(root))]>>
    \o WalkEach(root, SubdirNames(Components(root)))

Walk(top) ==
    IF top # <<>> /\ Components(top) \in dirs THEN WalkFrom(top) ELSE <<>>

\* os.listdir in place of os.walk: the files of the top directory only
FilePaths_TopOnly(entries) ==
    IF entries = <<>> THEN <<>>
    ELSE [i \in 1..Len(Head(entries).files) |->
              Join(Head(entries).root, <<Head(entries).files[i]>>)]

\* the file_path values of the two nested loops, in the order they are visited
RECURSIVE FilePaths(_)
FilePaths(entries) ==
    IF entries = <<>> THEN <<>>
    ELSE [i \in 1..Len(Head(entries).files) |->
              Join(Head(entries).root, <<Head(entries).files[i]>>)]
         \o FilePaths(Tail(entries))

-----------------------------------------------------------------------------
(* compile_files_to_text *)

\* mode 'a' in place of 'w'
OpenForWrite_Keep(content) == content

OpenForWrite(content) == <<>>             \* open(output_file, 'w')

NotFoundBlock(directory) == <<NotFoundPrefix \o directory, EqLine, Blank>>

DirectoryBlock(directory) == <<DirectoryPrefix \o directory, EqLine, Blank>>

\* open(file_path, 'r', encoding='utf-8').read()
ReadFile(file_path) ==
    IF IsFile(Components(file_path)) THEN files[Components(file_path)]
    ELSE ErrorFile

\* what the try statement writes
ReadBody(file_path) ==
    LET r == ReadFile(file_path) IN
    CASE r.kind = "text" -> r.data
      [] r.kind = "binary" -> <<BinaryLine>>
      [] OTHER -> <<ErrorPrefix \o r.data \o <<"]">>>>

\* the closing separator forgotten
FileBlock_NoClosing(file_path) ==
    <<FilePrefix \o file_path, DashLine>> \o ReadBody(file_path) \o <<Blank>>

FileBlock(file_path) ==
    <<FilePrefix \o file_path, DashLine>> \o ReadBody(file_path)
    \o <<DashLine, Blank>>

OpenCollector ==
    /\ pc = "start"
    /\ out' = OpenForWrite(out)
    /\ di' = 1
    /\ pending' = <<>>
    /\ pc' = "collect"
    /\ UNCHANGED <<dirs, files, directories, base_path, twalk, run, prev, fault>>

\* open(output_file, 'w') raises: nothing catches it
OpenCollectorFails ==
    /\ pc = "start"
    /\ pc' = "crashed"
    /\ fault' = "open"
    /\ UNCHANGED <<dirs, files, directories, base_path, out, di, pending,
                   twalk, run, prev>>

\* break in place of continue
MissingDirectory_Stop ==
    /\ pc = "collect"
    /\ pending = <<>>
    /\ di <= Len(directories)
    /\ ~Exists(directories[di])
    /\ out' = out \o NotFoundBlock(directories[di])
    /\ di' = Len(directories) + 1
    /\ UNCHANGED <<dirs, files, directories, base_path, pc, pending, twalk,
                   run, prev, fault>>

MissingDirectory ==
    /\ pc = "collect"
    /\ pending = <<>>
    /\ di <= Len(directories)
    /\ ~Exists(directories[di])
    /\ out' = out \o NotFoundBlock(directories[di])
    /\ di' = di + 1
    /\ UNCHANGED <<dirs, files, directories, base_path, pc, pending, twalk,
                   run, prev, fault>>

\* a directory listed twice is processed once
EnterDirectory_SkipRepeated ==
    /\ pc = "collect"
    /\ pending = <<>>
    /\ di <= Len(directories)
    /\ Exists(directories[di])
    /\ IF \E k \in 1..(di - 1) : directories[k] = directories[di]
       THEN UNCHANGED <<out, pending>>
       ELSE /\ out' = out \o DirectoryBlock(directories[di])
            /\ pending' = FilePaths(Walk(directories[di]))
    /\ di' = di + 1
    /\ UNCHANGED <<dirs, files, directories, base_path, pc, twalk, run, prev,
                   fault>>

EnterDirectory ==
    /\ pc = "collect"
    /\ pending = <<>>
    /\ di <= Len(directories)
    /\ Exists(directories[di])
    /\ out' = out \o DirectoryBlock(directories[di])
    /\ pending' = FilePaths(Walk(directories[di]))
    /\ di' = di + 1
    /\ UNCHANGED <<dirs, files, directories, base_path, pc, twalk, run, prev,
                   fault>>

\* the try statement around the whole loop: a failed read ends the walk
VisitFile_AbortOnError ==
    /\ pc = "collect"
    /\ pending # <<>>
    /\ out' = out \o FileBlock(Head(pending))
    /\ pending' = IF ReadFile(Head(pending)).kind = "text"
                  THEN Tail(pending) ELSE <<>>
    /\ UNCHANGED <<dirs, files, directories, base_path, pc, di, twalk, run,
                   prev, fault>>

\* only UnicodeDecodeError caught: any other read error leaves the script
VisitFile_Uncaught ==
    /\ pc = "collect"
    /\ pending # <<>>
    /\ IF ReadFile(Head(pending)).kind = "error"
       THEN /\ out' = out \o <<FilePrefix \o Head(pending), DashLine>>
            /\ pc' = "crashed"
            /\ fault' = "read"
            /\ UNCHANGED pending
       ELSE /\ out' = out \o FileBlock(Head(pending))
            /\ pending' = Tail(pending)
            /\ UNCHANGED <<pc, fault>>
    /\ UNCHANGED <<dirs, files, directories, base_path, di, twalk, run, prev>>

VisitFile ==
    /\ pc = "collect"
    /\ pending # <<>>
    /\ out' = out \o FileBlock(Head(pending))
    /\ pending' = Tail(pending)
    /\ UNCHANGED <<dirs, files, directories, base_path, pc, di, twalk, run,
                   prev, fault>>

CloseCollector ==
    /\ pc = "collect"
    /\ pending = <<>>
    /\ di > Len(directories)
    /\ pc' = "tree"
    /\ UNCHANGED <<dirs, files, directories, base_path, out, di, pending,
                   twalk, run, prev, fault>>

-----------------------------------------------------------------------------
(* generate_directory_tree *)

\* mode 'w' in place of 'a'
OpenForAppend_Truncate(content) == <<>>

OpenForAppend(content) == content         \* open(output_file, 'a')

Level(base, root) == Count(Remove(root, base), Sep)

\* files indented like their directory
TreeLines_SameIndent(base, entry) ==
    <<Indent(Level(base, entry.root)) \o Basename(entry.root) \o <<"/">>>>
    \o [i \in 1..Len(entry.files) |->
            Indent(Level(base, entry.root)) \o <<entry.files[i]>>]

TreeLines(base, entry) ==
    <<Indent(Level(base, entry.root)) \o Basename(entry.root) \o <<"/">>>>
    \o [i \in 1..Len(entry.files) |->
            Indent(Level(base, entry.root) + 1) \o <<entry.files[i]>>]

OpenTree ==
    /\ pc = "tree"
    /\ out' = OpenForAppend(out) \o <<TreeTitle, EqLine>>
    /\ twalk' = Walk(base_path)
    /\ pc' = "treewalk"
    /\ UNCHANGED <<dirs, files, directories, base_path, di, pending, run,
                   prev, fault>>

\* open(output_file, 'a') raises: nothing catches it
OpenTreeFails ==
    /\ pc = "tree"
    /\ pc' = "crashed"
    /\ fault' = "open"
    /\ UNCHANGED <<dirs, files, directories, base_path, out, di, pending,
                   twalk, run, prev>>

TreeStep ==
    /\ pc = "treewalk"
    /\ twalk # <<>>
    /\ out' = out \o TreeLines(base_path, Head(twalk))
    /\ twalk' = Tail(twalk)
    /\ UNCHANGED <<dirs, files, directories, base_path, pc, di, pending, run,
                   prev, fault>>

CloseTree ==
    /\ pc = "treewalk"
    /\ twalk = <<>>
    /\ out' = out \o <<EqLine, Blank>>
    /\ pc' = "print"
    /\ UNCHANGED <<dirs, files, directories, base_path, di, pending, twalk,
                   run, prev, fault>>

-----------------------------------------------------------------------------
(* __main__ *)

BasePaths == {<<"a">>, <<"a", "/">>}
TargetNames == {"a", "b"}

RECURSIVE NameLists(_)
NameLists(n) ==
    IF n = 0 THEN {<<>>}
    ELSE NameLists(n - 1)
         \cup {Append(l, x) : l \in {m \in NameLists(n - 1) : Len(m) = n - 1},
                              x \in TargetNames}

Init ==
    /\ \E fs \in FileSystems : dirs = fs.d /\ files = fs.f
    /\ base_path \in BasePaths
    /\ \E names \in NameLists(MaxDirs) :
          directories = [i \in 1..Len(names) |-> Join(base_path, <<names[i]>>)]
    /\ out = <<Old>>
    /\ pc = "start"
    /\ di = 1
    /\ pending = <<>>
    /\ twalk = <<>>
    /\ run = 1
    /\ prev = <<>>
    /\ fault = "none"

PrintComplete ==
    /\ pc = "print"
    /\ pc' = "done"
    /\ UNCHANGED <<dirs, files, directories, base_path, out, di, pending,
                   twalk, run, prev, fault>>

\* the script is started again on the same, unchanged file system
Rerun ==
    /\ pc = "done"
    /\ run = 1
    /\ run' = run + 1
    /\ prev' = out
    /\ pc' = "start"
    /\ UNCHANGED <<dirs, files, directories, base_path, out, di, pending,
                   twalk, fault>>

Next ==
    \/ OpenCollector
    \/ OpenCollectorFails
    \/ MissingDirectory
    \/ EnterDirectory
    \/ VisitFile
    \/ CloseCollector
    \/ OpenTree
    \/ OpenTreeFails
    \/ TreeStep
    \/ CloseTree
    \/ PrintComplete
    \/ Rerun

Spec == Init /\ [][Next]_vars

FairSpec == Spec /\ WF_vars(Next)

-----------------------------------------------------------------------------
(* Reading the output file back *)

\* compile_files_to_text has just returned to __main__
Collected == pc = "tree"

IsFileLine(l) == IsPrefix(FilePrefix, l)
IsHeaderLine(l) == IsPrefix(DirectoryPrefix, l) \/ IsPrefix(NotFoundPrefix, l)
PathOf(l) == SubSeq(l, Len(FilePrefix) + 1, Len(l))
NodeOf(l) == Components(PathOf(l))

FileIdx == {j \in 1..Len(out) : IsFileLine(out[j])}
HeaderIdx == {i \in 1..Len(out) : IsHeaderLine(out[i])}
TitleIdx == {t \in 1..Len(out) : out[t] = TreeTitle}

\* the number of the list element whose header precedes line j
SegmentOf(j) == Cardinality({i \in HeaderIdx : i < j})
FileIdxIn(k) == {j \in FileIdx : SegmentOf(j) = k}
HeaderPos(k) == CHOOSE i \in HeaderIdx : SegmentOf(i) = k - 1

\* the files of the tree below a node, by the file system alone
FilesUnder(c) == {f \in FileUniverse : IsFile(f) /\ IsPrefix(c, f)}
DirsUnder(c) == {d \in dirs : IsPrefix(c, d)}

ErrorLine(f) == ErrorPrefix \o f.data \o <<"]">>

\* the lines between the separator after File line j and the next separator
HasClosing(j) == \E e \in (j + 2)..Len(out) : out[e] = DashLine
ClosingOf(j) ==
    CHOOSE e \in (j + 2)..Len(out) :
        out[e] = DashLine /\ \A x \in (j + 2)..(e - 1) : out[x] # DashLine
BodyOf(j) == SubSeq(out, j + 2, ClosingOf(j) - 1)

Occurrences(d) == Cardinality({k \in 1..Len(directories) : directories[k] = d})

-----------------------------------------------------------------------------
\* C1: once compile_files_to_text has returned, the part of the output that
\* belongs to a list element naming a directory tree with N files holds
\* exactly N File: lines, one for each file of the tree and none twice, each
\* followed by the separator and then by the file's content or, when it
\* cannot be read, by the placeholder of its failure.
C1_OneBlockPerFile ==
    Collected =>
        \A k \in 1..Len(directories) :
            IsDir(Components(directories[k])) =>
                LET tree == FilesUnder(Components(directories[k])) IN
                /\ Cardinality(FileIdxIn(k)) = Cardinality(tree)
                /\ \A f \in tree :
                      Cardinality({j \in FileIdxIn(k) : NodeOf(out[j]) = f}) = 1
                /\ \A j \in FileIdxIn(k) :
                      /\ NodeOf(out[j]) \in tree
                      /\ j + 2 <= Len(out)
                      /\ out[j + 1] = DashLine
                      /\ LET r == files[NodeOf(out[j])] IN
                         CASE r.kind = "text" ->
                                 SubSeq(out, j + 2, j + 1 + Len(r.data)) = r.data
                           [] r.kind = "binary" -> out[j + 2] = BinaryLine
                           [] OTHER -> out[j + 2] = ErrorLine(r)

C1_Witness ==
    /\ pc = "tree"
    /\ Len(directories) = 1
    /\ IsDir(Components(directories[1]))
    /\ Cardinality(FilesUnder(Components(directories[1]))) = 3
    /\ Cardinality(FileIdx) = 3

-----------------------------------------------------------------------------
\* C2: every list element that does not exist gets exactly one
\* "Directory not found" notice, followed by nothing but its separator and a
\* blank line (no File: line, no "Directory:" header), and every later list
\* element still gets its own header.
C2_MissingDirectoryNotice ==
    Collected =>
        \A k \in 1..Len(directories) :
            ~Exists(directories[k]) =>
                LET d == directories[k] IN
                /\ Cardinality({i \in 1..Len(out) : out[i] = NotFoundPrefix \o d})
                       = Occurrences(d)
                /\ \A i \in 1..Len(out) : out[i] # DirectoryPrefix \o d
                /\ FileIdxIn(k) = {}
                /\ \A j \in FileIdx : ~IsPrefix(Components(d), NodeOf(out[j]))
                /\ Cardinality(HeaderIdx) = Len(directories)
                /\ out[HeaderPos(k)] = NotFoundPrefix \o d
                /\ k < Len(directories) => HeaderPos(k + 1) = HeaderPos(k) + 3

C2_Witness ==
    /\ pc = "tree"
    /\ Len(directories) = 2
    /\ ~Exists(directories[1])
    /\ Exists(directories[2])
    /\ FileIdxIn(2) # {}

-----------------------------------------------------------------------------
\* C3: a file whose read fails gets one placeholder line between its two
\* separators (the fixed binary line for a decode failure, the error line
\* otherwise), and all files of the directory, the ones after it included,
\* have their block.
C3_ReadFailureIsLocal ==
    Collected =>
        \A k \in 1..Len(directories) :
            \A j \in FileIdxIn(k) :
                LET r == files[NodeOf(out[j])] IN
                r.kind \in {"binary", "error"} =>
                    /\ j + 3 <= Len(out)
                    /\ out[j + 2] =
                          (IF r.kind = "binary" THEN BinaryLine ELSE ErrorLine(r))
                    /\ out[j + 3] = DashLine
                    /\ \A f \in FilesUnder(Components(directories[k])) :
                          \E x \in FileIdxIn(k) : NodeOf(out[x]) = f

C3_Witness ==
    /\ pc = "tree"
    /\ \E j \in FileIdx, x \in FileIdx, y \in FileIdx :
          /\ j < x /\ x < y
          /\ files[NodeOf(out[j])].kind = "binary"
          /\ files[NodeOf(out[x])].kind = "error"
          /\ files[NodeOf(out[y])].kind = "text"
          /\ SegmentOf(j) = SegmentOf(y)

-----------------------------------------------------------------------------
\* C5: a second run on the unchanged file system leaves the output file
\* exactly as the first run left it, although the first run started on old
\* content and the second on the first run's output.
C5_SecondRunSameOutput == (pc = "done" /\ run = 2) => out = prev

C5_Witness ==
    /\ pc = "done"
    /\ run = 2
    /\ prev # <<>>
    /\ Cardinality(FileIdx) >= 2
    /\ TitleIdx # {}

-----------------------------------------------------------------------------
\* C6: every File: line is followed by the 80-dash separator, then by
\* exactly one of the file's content, the binary placeholder and the error
\* placeholder, then by the closing 80-dash separator and a blank line, after
\* which the next block starts or the output ends; directory a/b with file f
\* holding "hello" gives "File: a/b/f", 80 dashes, "hello", 80 dashes.
C6_BlockShape ==
    Collected =>
        /\ \A j \in FileIdx :
              /\ j + 1 <= Len(out)
              /\ out[j + 1] = DashLine
              /\ HasClosing(j)
              /\ LET e == ClosingOf(j)
                     r == files[NodeOf(out[j])]
                     isContent == r.kind = "text" /\ BodyOf(j) = r.data
                     isBinary == BodyOf(j) = <<BinaryLine>>
                     isError == r.kind = "error" /\ BodyOf(j) = <<ErrorLine(r)>>
                 IN /\ Cardinality({x \in 1..3 : \/ x = 1 /\ isContent
                                                 \/ x = 2 /\ isBinary
                                                 \/ x = 3 /\ isError}) = 1
                    /\ e + 1 <= Len(out)
                    /\ out[e + 1] = Blank
                    /\ e + 2 <= Len(out) =>
                          IsFileLine(out[e + 2]) \/ IsHeaderLine(out[e + 2])
        /\ \A k \in 1..Len(directories) :
              (/\ directories[k] = <<"a", "/", "b">>
               /\ files[<<"a", "b", "f">>] = TextFile(<<Hello>>)) =>
                  \E j \in FileIdxIn(k) :
                      /\ out[j] = FilePrefix \o <<"a", "/", "b", "/", "f">>
                      /\ out[j + 1] = DashLine
                      /\ out[j + 2] = Hello
                      /\ out[j + 3] = DashLine

C6_Witness ==
    /\ pc = "tree"
    /\ directories = <<<<"a", "/", "b">>>>
    /\ files[<<"a", "b", "f">>] = TextFile(<<Hello>>)
    /\ files[<<"a", "b", "g">>] = BinaryFile
    /\ files[<<"a", "b", "a", "f">>] = ErrorFile
    /\ Cardinality(FileIdx) = 3

-----------------------------------------------------------------------------
(* The tree section *)

TitleAt == CHOOSE t \in TitleIdx : TRUE
TreeIdx == (TitleAt + 2)..(Len(out) - 2)
BaseNode == Components(base_path)

TreeStepKeepsLines == (pc \in {"tree", "treewalk"}) => IsPrefix(out, out')

\* C9: no step of generate_directory_tree removes or changes a line the
\* output file already had, and after a full run the tree section (title,
\* 80 "=", tree lines, 80 "=", blank line) ends the file, behind every
\* directory header and every File: line.
C9_TreeIsAppended ==
    /\ [][TreeStepKeepsLines]_vars
    /\ [](pc = "done" =>
            /\ Cardinality(TitleIdx) = 1
            /\ TitleAt + 3 <= Len(out)
            /\ out[TitleAt + 1] = EqLine
            /\ out[Len(out) - 1] = EqLine
            /\ out[Len(out)] = Blank
            /\ Cardinality(HeaderIdx) = Len(directories)
            /\ \A i \in HeaderIdx \cup FileIdx : i < TitleAt
            /\ \A i \in TreeIdx : out[i] # <<>> /\ ~IsFileLine(out[i]))

C9_Witness ==
    /\ pc = "done"
    /\ Cardinality(HeaderIdx) = 2
    /\ Cardinality(FileIdx) >= 2
    /\ TitleIdx # {}
    /\ Cardinality(TreeIdx) >= 4

-----------------------------------------------------------------------------
\* C10: the output of compile_files_to_text has exactly one header line per
\* list element, in list order, which is the "not found" or the "Directory:"
\* line of that element, followed by 80 "="; and every File: line lies
\* behind the header of the list element whose tree its file belongs to and
\* before the next header.
C10_HeaderPerListElement ==
    Collected =>
        /\ Cardinality(HeaderIdx) = Len(directories)
        /\ \A k \in 1..Len(directories) :
              LET i == HeaderPos(k) IN
              /\ out[i] \in {NotFoundPrefix \o directories[k],
                             DirectoryPrefix \o directories[k]}
              /\ i + 1 <= Len(out)
              /\ out[i + 1] = EqLine
        /\ \A j \in FileIdx :
              /\ SegmentOf(j) >= 1
              /\ IsPrefix(Components(directories[SegmentOf(j)]), NodeOf(out[j]))
        /\ \A k \in 1..Len(directories) :
              IsDir(Components(directories[k])) =>
                  {NodeOf(out[j]) : j \in FileIdxIn(k)}
                      = FilesUnder(Components(directories[k]))

C10_Witness ==
    /\ pc = "tree"
    /\ Len(directories) = 2
    /\ directories[1] = directories[2]
    /\ FileIdxIn(1) # {}
    /\ FileIdxIn(2) # {}

-----------------------------------------------------------------------------
\* C7: after a run, the tree section has for every directory reached from
\* the base path exactly one line made of 4 spaces per level of depth below
\* the base path, the directory's name and "/", and for every file exactly
\* one line made of the indentation of its directory plus 4 spaces and the
\* file's name; for every base path string.
C7_IndentedByDepth ==
    (pc = "done" /\ BaseNode \in dirs) =>
        /\ \A d \in DirsUnder(BaseNode) :
              Cardinality({i \in TreeIdx :
                  out[i] = Indent(Len(d) - Len(BaseNode)) \o <<Last(d), "/">>}) = 1
        /\ \A f \in FilesUnder(BaseNode) :
              Cardinality({i \in TreeIdx :
                  out[i] = Indent(Len(f) - Len(BaseNode)) \o <<Last(f)>>}) = 1

SubdirB == BaseNode \o <<"b">>
FileBF == BaseNode \o <<"b", "f">>
HasSubdirWithFile == pc = "done" /\ SubdirB \in dirs /\ IsFile(FileBF)

\* C8 as stated: for a base path with subdirectory b holding file f, the
\* tree section has the line "b/" and next the line "    f" (4 spaces).
C8_AsStated ==
    HasSubdirWithFile =>
        \E i \in TreeIdx :
            /\ out[i] = <<"b", "/">>
            /\ i + 1 \in TreeIdx
            /\ out[i + 1] = Indent(1) \o <<"f">>

\* C8 amended: the tree section starts with the base directory's own line;
\* behind it comes the line of b, immediately followed by the line of f with
\* 4 spaces more than the line of b; and for a base path without a separator
\* the two lines are "    b/" (4 spaces) and "        f" (8 spaces).
C8_SubdirBelowBase ==
    HasSubdirWithFile =>
        /\ out[TitleAt + 2] = Basename(base_path) \o <<"/">>
        /\ \E i \in TreeIdx, n \in 0..1 :
              /\ i > TitleAt + 2
              /\ out[i] = Indent(n) \o <<"b", "/">>
              /\ i + 1 \in TreeIdx
              /\ out[i + 1] = Indent(n + 1) \o <<"f">>
              /\ Count(base_path, Sep) = 0 => n = 1

C8_Witness ==
    /\ HasSubdirWithFile
    /\ base_path = <<"a">>
    /\ \E i \in TreeIdx :
          /\ out[i] = Indent(1) \o <<"b", "/">>
          /\ out[i + 1] = Indent(2) \o <<"f">>

-----------------------------------------------------------------------------
\* C4 as stated: nothing is fatal, no run ends in an exception.
C4_NothingFatal == pc # "crashed"

Unreadable(f) == files[f].kind \in {"binary", "error"}

\* C4 amended: every run ends, completed or in an exception; the only
\* exception that ends a run is a failure to open the output file; a missing
\* list element and a file that cannot be read never end it, and a completed
\* run has the notice of every missing list element and the placeholder of
\* every file that could not be read.
C4_OnlyOutputOpenIsFatal ==
    /\ <>(pc \in {"done", "crashed"})
    /\ [](pc = "crashed" => fault = "open")
    /\ [](pc = "done" =>
            /\ \A k \in 1..Len(directories) :
                  ~Exists(directories[k]) =>
                      \E i \in HeaderIdx : out[i] = NotFoundPrefix \o directories[k]
            /\ \A k \in 1..Len(directories) :
                  IsDir(Components(directories[k])) =>
                      \A f \in FilesUnder(Components(directories[k])) :
                          Unreadable(f) =>
                              \E j \in FileIdxIn(k) :
                                  /\ NodeOf(out[j]) = f
                                  /\ out[j + 2] \in {BinaryLine, ErrorLine(files[f])})

C4_Witness ==
    /\ pc = "done"
    /\ \E k \in 1..Len(directories) : ~Exists(directories[k])
    /\ \E j \in FileIdx, x \in FileIdx :
          /\ files[NodeOf(out[j])].kind = "binary"
          /\ files[NodeOf(out[x])].kind = "error"

====
